---------------------------- MODULE Spec2Model ----------------------------
(***************************************************************************)
(* A model of YTGrabber (src/main.py): the menu loop of run(), the URL     *)
(* normaliser and content classifier, the cookie-jar synthesiser, the two  *)
(* command builders and the relay that runs the external downloader.       *)
(*                                                                         *)
(* Text is modelled as a sequence of tokens.  A URL is a sequence of URL   *)
(* tokens, each marker the code searches for ('/shorts/', 'list=', '@',    *)
(* ...) being one token, so that "marker in url" is token membership and   *)
(* "url.startswith(p)" is a test of the first token.  Short console        *)
(* answers are sequences of characters.                                    *)
(***************************************************************************)
EXTENDS Integers, Sequences, FiniteSets, TLC

(***************************************************************************)
(* Bounds of the model.                                                    *)
(***************************************************************************)
\* Number of times the user answers 'y' to "Download another?".
MaxRequests == 1
\* Largest number the user types at the limit prompt.
MaxLimit == 2

(***************************************************************************)
(* Text helpers.                                                           *)
(***************************************************************************)
\* Python's None.
None == "None"

\* "tok in text" for a token sequence.
In(tok, text) == \E i \in 1..Len(text) : text[i] = tok

\* any(p in text for p in toks)
AnyIn(toks, text) == \E t \in toks : In(t, text)

\* text.startswith(tuple of prefixes), a prefix being one token.
StartsWith(text, toks) == Len(text) > 0 /\ text[1] \in toks

\* str.lower() on one character.
LowerChar(c) ==
    CASE c = "A" -> "a"
      [] c = "L" -> "l"
      [] c = "Y" -> "y"
      [] c = "N" -> "n"
      [] OTHER -> c

\* str.lower()
Lower(s) == [i \in 1..Len(s) |-> LowerChar(s[i])]

\* White space, as str.strip() sees it.
Blank == {" ", "\n"}

\* str.strip(): leading and trailing white space removed.
RECURSIVE LStrip(_)
LStrip(s) == IF Len(s) > 0 /\ s[1] \in Blank THEN LStrip(Tail(s)) ELSE s

RECURSIVE RStrip(_)
RStrip(s) ==
    IF Len(s) > 0 /\ s[Len(s)] \in Blank THEN RStrip(SubSeq(s, 1, Len(s) - 1)) ELSE s

Strip(s) == RStrip(LStrip(s))

\* The decimal digits and their values.
DigitVal(c) ==
    CASE c = "0" -> 0 [] c = "1" -> 1 [] c = "2" -> 2 [] c = "3" -> 3
      [] c = "4" -> 4 [] c = "5" -> 5 [] c = "6" -> 6 [] c = "7" -> 7
      [] c = "8" -> 8 [] c = "9" -> 9 [] OTHER -> -1

IsDigits(s) == Len(s) > 0 /\ \A i \in 1..Len(s) : DigitVal(s[i]) >= 0

RECURSIVE DigitsVal(_)
DigitsVal(s) ==
    IF Len(s) = 0 THEN 0
    ELSE 10 * DigitsVal(SubSeq(s, 1, Len(s) - 1)) + DigitVal(s[Len(s)])

\* int(s) raises ValueError unless s is an optionally signed digit string
\* (blanks around it are accepted).
IntParses(s) ==
    LET t == Strip(s) IN
    IF StartsWith(t, {"+", "-"}) THEN IsDigits(Tail(t)) ELSE IsDigits(t)

\* int(s) where it parses.
IntOf(s) ==
    LET t == Strip(s) IN
    IF StartsWith(t, {"-"}) THEN 0 - DigitsVal(Tail(t))
    ELSE IF StartsWith(t, {"+"}) THEN DigitsVal(Tail(t))
    ELSE DigitsVal(t)

(***************************************************************************)
(* URL Normalizer and Content Classifier.                                  *)
(***************************************************************************)
ContentTypes == {"video", "playlist", "channel"}

\* The channel-path markers of get_content_type.
ChannelPatterns == {"/c/", "/channel/", "/user/", "@"}

\* The channel-path markers of probe_url_type.
ProbeChannelPatterns == {"/channel/", "/c/", "/user/", "@"}

\* The video markers of probe_url_type.
ProbeVidPatterns == {"watch?v=", "/shorts/"}

\* normalize_url
normalize_url(u) ==
    IF StartsWith(u, {"@"}) THEN <<"https://", "www.youtube.com", "/">> \o u
    ELSE IF /\ ~StartsWith(u, {"http://", "https://"})
            /\ StartsWith(u, {"youtube.com", "www.youtube.com", "m.youtube.com", "youtu.be"})
         THEN <<"https://">> \o u
    ELSE u

\* The part of get_content_type that needs no subprocess: the type, or
\* "probe" where the function delegates to probe_url_type.
\* Variant: the channel test placed before the '/shorts/' test.
ClassifyMutShortsLast(raw) ==
    LET u == normalize_url(raw) IN
    IF AnyIn(ChannelPatterns, u)
    THEN IF In("/videos", u) THEN "channel" ELSE "probe"
    ELSE IF In("/shorts/", u) THEN "video"
    ELSE IF In("list=", u) THEN "playlist"
    ELSE "video"

\* Variant: the 'list=' test left out.
ClassifyMutNoPlaylist(raw) ==
    LET u == normalize_url(raw) IN
    IF In("/shorts/", u) THEN "video"
    ELSE IF AnyIn(ChannelPatterns, u)
    THEN IF In("/videos", u) THEN "channel" ELSE "probe"
    ELSE "video"

\* get_content_type as written.
Classify(raw) ==
    LET u == normalize_url(raw) IN
    IF In("/shorts/", u) THEN "video"
    ELSE IF AnyIn(ChannelPatterns, u)
    THEN IF In("/videos", u) THEN "channel" ELSE "probe"
    ELSE IF In("list=", u) THEN "playlist"
    ELSE "video"

\* What the probe subprocess did: it raised, or it ended with this
\* standard output.
ProbeRaised == [raised |-> TRUE, stdout |-> <<>>]
ProbeOutput(out) == [raised |-> FALSE, stdout |-> out]

\* probe_url_type, given what happened to its subprocess.
\* Variant: an output without a video marker counts as a channel, the
\* channel-marker test left out.
ProbeMutDefaultChannel(outcome) ==
    IF outcome.raised THEN "video"
    ELSE LET output_url == Strip(outcome.stdout) IN
         IF In("list=", output_url) THEN "playlist"
         ELSE IF ~AnyIn(ProbeVidPatterns, output_url) THEN "channel"
         ELSE "video"

probe_url_type(outcome) ==
    IF outcome.raised THEN "video"
    ELSE LET output_url == Strip(outcome.stdout) IN
         IF In("list=", output_url) THEN "playlist"
         ELSE IF /\ AnyIn(ProbeChannelPatterns, output_url)
                 /\ ~AnyIn(ProbeVidPatterns, output_url)
              THEN "channel"
         ELSE "video"

(***************************************************************************)
(* Command Builder.  A command is the argument list before the URL and the *)
(* URL, which both builders append last.  The time stamp and the random    *)
(* user agent are written as placeholders.                                 *)
(***************************************************************************)
\* The path tempfile.mktemp returns for the n-th fresh name.
TempPath(n) == "/tmp/tmp" \o ToString(n) \o ".txt"

\* The item-range restriction both builders append.
\* Variant: the range appended without the test.
PlaylistItemsMutAlways(content_type_, limit_) ==
    <<"--playlist-items", "1-" \o limit_>>

PlaylistItems(content_type_, limit_) ==
    IF content_type_ \in {"playlist", "channel"} /\ limit_ # "all"
    THEN <<"--playlist-items", "1-" \o limit_>>
    ELSE <<>>

\* output_template of build_download_command
OutputTemplate(content_type_) ==
    IF content_type_ = "video" THEN "Downloads/%(title)s_<ts>.%(ext)s"
    ELSE IF content_type_ = "playlist"
         THEN "Downloads/%(playlist_title)s/%(title)s_<ts>.%(ext)s"
    ELSE "Downloads/%(uploader)s/%(title)s_<ts>.%(ext)s"

\* output_template of download_fallback
FallbackTemplate(content_type_) ==
    IF content_type_ = "video" THEN "Downloads/%(title)s_fallback_<ts>.%(ext)s"
    ELSE IF content_type_ = "playlist"
         THEN "Downloads/%(playlist_title)s/%(title)s_fallback_<ts>.%(ext)s"
    ELSE "Downloads/%(uploader)s/%(title)s_fallback_<ts>.%(ext)s"

\* build_download_command, given the path create_cookie_file returned.
build_download_command(url_, content_type_, format_type_, limit_, cookie) ==
    [variant |-> "full",
     argv |-> <<"yt-dlp", "--ignore-errors", "--no-warnings", "--geo-bypass",
                "--add-metadata", "--user-agent", "<user-agent>",
                "--cookies", cookie,
                "--output", OutputTemplate(content_type_),
                "--no-overwrites", "--continue">>
              \o (IF format_type_ = "audio"
                  THEN <<"--format", "bestaudio", "--extract-audio",
                         "--audio-format", "mp3", "--audio-quality", "192K">>
                  ELSE IF format_type_ = "best"
                  THEN <<"--format", "bestvideo+bestaudio/best",
                         "--merge-output-format", "mp4">>
                  ELSE <<"--format", "best", "--merge-output-format", "mp4">>)
              \o PlaylistItems(content_type_, limit_)
              \o <<"--verbose">>,
     url |-> url_]

\* The command download_fallback assembles.
fallback_command(url_, content_type_, format_type_, limit_) ==
    [variant |-> "fallback",
     argv |-> <<"yt-dlp", "--ignore-errors", "--format", "best",
                "--output", FallbackTemplate(content_type_),
                "--no-overwrites", "--geo-bypass">>
              \o (IF format_type_ = "audio"
                  THEN <<"--extract-audio", "--audio-format", "mp3">>
                  ELSE <<>>)
              \o PlaylistItems(content_type_, limit_),
     url |-> url_]

NoCommand == [variant |-> "none", argv |-> <<>>, url |-> <<>>]

(***************************************************************************)
(* Output Relay: how one line of the subprocess's output is shown.         *)
(***************************************************************************)
\* "marker in token": the one marker that is a proper part of a token of
\* the model is 'download', a part of '[download]'.
PartOf(marker, tok) == marker = tok \/ (marker = "download" /\ tok = "[download]")

\* "marker in line"
Has(marker, l) == \E i \in 1..Len(l) : PartOf(marker, l[i])

\* str.lower() on a token of an output line.
LowerTok(t) ==
    CASE t = "[DEBUG]" -> "[debug]"
      [] t = "ERROR" -> "error"
      [] t = "ETA" -> "eta"
      [] OTHER -> t

LowerLine(l) == [i \in 1..Len(l) |-> LowerTok(l[i])]

ProgressMarkers == {"download", "progress", "ETA", "%"}

\* The body of the loop over process.stdout in download().
relay_full(raw) ==
    LET l == Strip(raw) IN
    IF Has("[debug]", LowerLine(l)) THEN "nothing"
    ELSE IF Has("error", LowerLine(l)) THEN "red"
    ELSE IF \E m \in ProgressMarkers : Has(m, l)
         THEN IF Has("[download]", l) /\ Has("%", l) THEN "green-inplace"
              ELSE "green"
    ELSE "plain"

\* The body of the loop over process.stdout in download_fallback().
relay_fallback(raw) ==
    LET l == Strip(raw) IN
    IF Has("error", LowerLine(l)) THEN "red"
    ELSE IF \E m \in ProgressMarkers : Has(m, l)
         THEN IF Has("[download]", l) /\ Has("%", l) THEN "yellow-inplace"
              ELSE "yellow"
    ELSE "plain"

(***************************************************************************)
(* What the user and the environment may supply.                           *)
(***************************************************************************)
\* Answers to "Enter your choice (1-5)".
ChoiceInputs == {"1", "2", "3", "4", "5", "9"}

\* Answers to "Enter YouTube URL".
UrlInputs ==
    { <<"@", "somechannel">>,
      <<" ", "youtube.com", "/", "watch?v=", "id">>,
      <<"https://", "www.youtube.com", "/", "playlist?", "list=", "PL">>,
      <<"https://", "www.youtube.com", "/", "@", "name", "/videos", "?", "list=", "PL">>,
      <<"youtube.com", "/channel/", "UC", "?", "list=", "PL">>,
      <<" ">> }

\* Answers to "Select format (1-2)".
FormatInputs == { <<"1">>, <<" ", "2">>, <<>> }

\* Answers to "How many ... videos do you want to download?".
LimitInputs ==
    { <<>>, <<"A", "L", "L", " ">>, <<"a", "b", "c">>, <<"0">>, <<"-", "1">> }
    \cup { <<ToString(n)>> : n \in 1..MaxLimit }

\* Answers to "Download another? (y/n)".
ContinueInputs == { <<"y">>, <<"Y">>, <<"n">>, <<>> }

\* Standard outputs of the probe subprocess.
ProbeOutputs ==
    { <<>>, <<"\n">>,
      <<"https://", "www.youtube.com", "/", "@", "somechannel", "\n">>,
      <<"https://", "www.youtube.com", "/", "watch?v=", "id", "\n">>,
      <<"https://", "www.youtube.com", "/", "@", "name", "/", "watch?v=", "id", "\n">>,
      <<"https://", "www.youtube.com", "/", "playlist?", "list=", "PL", "\n">> }

\* Lines of the downloader's output.
OutputLines ==
    { <<"[debug]", "text">>,
      <<"[DEBUG]", "ERROR", "text">>,
      <<"ERROR", "text">>,
      <<"[download]", "%", "ETA">>,
      <<"[download]", "text">>,
      <<"text">> }

\* Exit statuses of a subprocess: success and failure.
ExitCodes == {0, 1}

(***************************************************************************)
(* State.                                                                  *)
(***************************************************************************)
VARIABLES
    pc,            \* the statement the program is at
    stack,         \* where the calls in progress return to
    choice,        \* run(): choice
    url,           \* run(), download(): url
    content_type,  \* run(), download(): content_type
    format_type,   \* run(): format_type
    limit,         \* run(): limit
    detected,      \* the value get_content_type returned
    cmd,           \* the command last assembled
    success,       \* the value download() returned
    proc,          \* the subprocess the program holds
    orphans,       \* subprocesses still alive that the program let go of
    line,          \* the output line the relay is at
    shown,         \* how the relay showed that line
    cookie_file,   \* self.cookie_file
    files,         \* the temporary files that exist
    msg,           \* the last report printed
    exit_cause,    \* why run() ended
    requests,      \* number of 'y' answers so far
    made,          \* the cookie files created so far, in order
    returned,      \* the paths create_cookie_file returned so far
    writes,        \* the paths opened for writing so far, in order
    probe_status,  \* what happened to the probe of this classification
    full_outcome,  \* how the full command of this request ended
    fb_outcome,    \* how the fallback command of this request ended
    launches,      \* downloader processes started for this request
    fallbacks,     \* calls of download_fallback for this request
    type_from      \* what content_type was resolved from

reqVars == <<choice, url, content_type, format_type, limit>>
procVars == <<proc, orphans>>
relayVars == <<line, shown>>
cookieVars == <<cookie_file, files, made, returned, writes>>
histVars == <<full_outcome, fb_outcome, launches, fallbacks, type_from>>
vars == <<pc, stack, choice, url, content_type, format_type, limit, detected,
          cmd, success, proc, orphans, line, shown, cookie_file, files, msg,
          exit_cause, requests, made, returned, writes, probe_status,
          full_outcome, fb_outcome, launches, fallbacks, type_from>>

NoProc == [kind |-> "none", st |-> "none", rc |-> 0]
Running(kind) == [kind |-> kind, st |-> "running", rc |-> 0]

\* The downloader subprocesses alive: the one held, and those let go of.
Alive == (IF proc.st = "running" THEN 1 ELSE 0) + orphans

\* The state YTGrabber() leaves, the fields that do not depend on how the
\* program is entered.
Fresh ==
    /\ detected = None /\ cmd = NoCommand /\ success = None
    /\ proc = NoProc /\ orphans = 0
    /\ line = <<>> /\ shown = None
    /\ cookie_file = None /\ files = {}
    /\ msg = "welcome" /\ exit_cause = None /\ requests = 0
    /\ made = <<>> /\ returned = {} /\ writes = <<>>
    /\ probe_status = None
    /\ full_outcome = None /\ fb_outcome = None
    /\ launches = 0 /\ fallbacks = 0

\* main(): YTGrabber() constructed, run() entered from main's try block.
Init ==
    /\ Fresh
    /\ pc = "menu"
    /\ stack = <<"finally">>
    /\ choice = None /\ url = <<>> /\ content_type = None
    /\ format_type = "best" /\ limit = "all" /\ type_from = None

\* Return to the caller; a call made from outside the program ends the run.
ReturnTo(st) == IF st = <<>> THEN "halt" ELSE st[Len(st)]
Pop(st) == IF st = <<>> THEN <<>> ELSE SubSeq(st, 1, Len(st) - 1)

\* An exception nothing below main() catches: main's handlers print and
\* the finally clause runs.
Unwind(st) == IF st # <<>> /\ st[1] = "finally" THEN "finally" ELSE "halt"

\* The locals of run() and of the calls below it, out of scope once the
\* loop goes round or run() is left.
ForgetLocals ==
    /\ choice' = None /\ url' = <<>> /\ content_type' = None
    /\ format_type' = "best" /\ limit' = "all"
    /\ detected' = None /\ cmd' = NoCommand
    /\ probe_status' = None
    /\ full_outcome' = None /\ fb_outcome' = None
    /\ launches' = 0 /\ fallbacks' = 0 /\ type_from' = None

(***************************************************************************)
(* run(): the menu, lines 405-455.                                         *)
(***************************************************************************)
\* choice == '5'
MenuExit ==
    /\ pc = "menu"
    /\ pc' = ReturnTo(stack) /\ stack' = Pop(stack)
    /\ msg' = "goodbye"
    /\ exit_cause' = "exit"
    /\ ForgetLocals
    /\ UNCHANGED <<success, procVars, relayVars, cookieVars, requests>>

\* choice not in 1..4
MenuInvalid ==
    /\ pc = "menu"
    /\ \E c \in ChoiceInputs \ {"1", "2", "3", "4", "5"} :
          choice' = c
    /\ msg' = "invalid choice"
    /\ UNCHANGED <<pc, stack, url, content_type, format_type, limit, detected, cmd,
                   success, procVars, relayVars, cookieVars, exit_cause, requests,
                   probe_status, histVars>>

\* a choice of 1..4: on to the URL prompt
MenuChoose ==
    /\ pc = "menu"
    /\ \E c \in ChoiceInputs \cap {"1", "2", "3", "4"} :
          choice' = c
    /\ pc' = "url_prompt"
    /\ UNCHANGED <<stack, url, content_type, format_type, limit, detected, cmd,
                   success, procVars, relayVars, cookieVars, msg, exit_cause,
                   requests, probe_status, histVars>>

\* url = input().strip(); an empty URL goes back to the menu; otherwise the
\* URL is normalised and get_content_type(url) is called while the
\* content_types dictionary is built (line 437).
UrlPrompt ==
    /\ pc = "url_prompt"
    /\ \E raw \in UrlInputs :
          LET u == Strip(raw) IN
          IF u = <<>>
          THEN /\ msg' = "empty url"
               /\ pc' = "menu"
               /\ UNCHANGED <<url, stack>>
          ELSE /\ url' = normalize_url(u)
               /\ pc' = "classify"
               /\ stack' = Append(stack, "type_select")
               /\ UNCHANGED msg
    /\ UNCHANGED <<choice, content_type, format_type, limit, detected, cmd, success,
                   procVars, relayVars, cookieVars, exit_cause, requests,
                   probe_status, histVars>>

(***************************************************************************)
(* get_content_type and probe_url_type, lines 146-188.                     *)
(***************************************************************************)
\* get_content_type up to its return, or up to the call of probe_url_type.
GetContentType ==
    /\ pc = "classify"
    /\ LET c == Classify(url) IN
       IF c = "probe"
       THEN /\ pc' = "probe"
            /\ UNCHANGED <<stack, detected>>
       ELSE /\ detected' = c
            /\ pc' = ReturnTo(stack) /\ stack' = Pop(stack)
    /\ probe_status' = None
    /\ UNCHANGED <<reqVars, cmd, success, procVars, relayVars, cookieVars, msg,
                   exit_cause, requests, histVars>>

\* subprocess.run starts the probe.
ProbeLaunch ==
    /\ pc = "probe"
    /\ proc' = Running("probe")
    /\ pc' = "probing"
    /\ UNCHANGED <<stack, reqVars, detected, cmd, success, orphans, relayVars,
                   cookieVars, msg, exit_cause, requests, probe_status, histVars>>

\* subprocess.run raises before a process exists: except Exception.
ProbeLaunchRaise ==
    /\ pc = "probe"
    /\ detected' = probe_url_type(ProbeRaised)
    /\ probe_status' = "raised"
    /\ pc' = ReturnTo(stack) /\ stack' = Pop(stack)
    /\ UNCHANGED <<reqVars, cmd, success, procVars, relayVars, cookieVars, msg,
                   exit_cause, requests, histVars>>

\* The probe ends (its exit status is not looked at) and its output is
\* classified.
ProbeFinish ==
    /\ pc = "probing"
    /\ \E out \in ProbeOutputs :
          /\ detected' = probe_url_type(ProbeOutput(out))
          /\ probe_status' = IF Strip(out) = <<>> THEN "empty" ELSE "url"
    /\ proc' = NoProc
    /\ pc' = ReturnTo(stack) /\ stack' = Pop(stack)
    /\ UNCHANGED <<reqVars, cmd, success, orphans, relayVars, cookieVars, msg,
                   exit_cause, requests, histVars>>

\* subprocess.run raises while the probe runs (its output cannot be
\* decoded): run() kills and reaps the child, then except Exception.
ProbeRaise ==
    /\ pc = "probing"
    /\ detected' = probe_url_type(ProbeRaised)
    /\ probe_status' = "raised"
    /\ proc' = NoProc
    /\ pc' = ReturnTo(stack) /\ stack' = Pop(stack)
    /\ UNCHANGED <<reqVars, cmd, success, orphans, relayVars, cookieVars, msg,
                   exit_cause, requests, histVars>>

(***************************************************************************)
(* run(): lines 432-455.                                                   *)
(***************************************************************************)
\* The content_types dictionary of run(), whose entry '4' is the value
\* get_content_type returned.
content_types(c, auto) ==
    CASE c = "1" -> "video"
      [] c = "2" -> "playlist"
      [] c = "3" -> "channel"
      [] c = "4" -> auto

\* content_type = content_types[choice]
TypeSelect ==
    /\ pc = "type_select"
    /\ content_type' = content_types(choice, detected)
    /\ msg' = IF choice = "4" THEN "auto-detected" ELSE msg
    /\ type_from' = IF choice = "4" THEN "classifier" ELSE "choice"
    /\ pc' = "format_prompt"
    /\ UNCHANGED <<stack, choice, url, format_type, limit, detected, cmd, success,
                   procVars, relayVars, cookieVars, exit_cause, requests,
                   probe_status, full_outcome, fb_outcome, launches, fallbacks>>

\* format_type from the answer; limit = 'all'; the limit is asked for
\* playlists and channels only, otherwise download() is called.
FormatPrompt ==
    /\ pc = "format_prompt"
    /\ \E ans \in FormatInputs :
          format_type' = IF Strip(ans) # <<"2">> THEN "best" ELSE "audio"
    /\ limit' = "all"
    /\ IF content_type \in {"playlist", "channel"}
       THEN /\ pc' = "limit_prompt"
            /\ UNCHANGED stack
       ELSE /\ pc' = "download"
            /\ stack' = Append(stack, "report")
    /\ UNCHANGED <<choice, url, content_type, detected, cmd, success, procVars,
                   relayVars, cookieVars, msg, exit_cause, requests, probe_status,
                   histVars>>

\* ask_for_limit: what one answer makes of the loop: the value returned, or
\* the complaint printed before the question is asked again.
ask_for_limit(raw) ==
    LET resp == Lower(Strip(raw)) IN
    IF resp = <<>> \/ resp = <<"a", "l", "l">> THEN [ok |-> TRUE, val |-> "all"]
    ELSE IF ~IntParses(resp) THEN [ok |-> FALSE, val |-> "enter all or a number"]
    ELSE IF IntOf(resp) > 0 THEN [ok |-> TRUE, val |-> ToString(IntOf(resp))]
    ELSE [ok |-> FALSE, val |-> "enter a positive number"]

\* One answer at the limit prompt.
LimitPrompt ==
    /\ pc = "limit_prompt"
    /\ \E raw \in LimitInputs :
          LET r == ask_for_limit(raw) IN
          IF r.ok
          THEN /\ limit' = r.val
               /\ pc' = "download"
               /\ stack' = Append(stack, "report")
               /\ UNCHANGED msg
          ELSE /\ msg' = r.val
               /\ UNCHANGED <<limit, pc, stack>>
    /\ UNCHANGED <<choice, url, content_type, format_type, detected, cmd, success,
                   procVars, relayVars, cookieVars, exit_cause, requests,
                   probe_status, histVars>>

(***************************************************************************)
(* download(), lines 265-284, and create_cookie_file, lines 96-120.        *)
(***************************************************************************)
\* "not content_type": None and the empty string are false.
\* Variant: the test left out.
NotGivenMutNever(ct) == FALSE

NotGiven(ct) == ct = None \/ ct = ""

\* download() entered: the URL is normalised and, where no content type
\* was passed, get_content_type is called.
DownloadEnter ==
    /\ pc = "download"
    /\ url' = normalize_url(url)
    /\ IF NotGiven(content_type)
       THEN /\ pc' = "classify"
            /\ stack' = Append(stack, "resolve")
       ELSE /\ pc' = "build"
            /\ UNCHANGED stack
    /\ success' = None
    /\ full_outcome' = None /\ fb_outcome' = None
    /\ launches' = 0 /\ fallbacks' = 0
    /\ UNCHANGED <<choice, content_type, format_type, limit, detected, cmd,
                   procVars, relayVars, cookieVars, msg, exit_cause, requests,
                   probe_status, type_from>>

\* content_type = self.get_content_type(url)
Resolve ==
    /\ pc = "resolve"
    /\ content_type' = detected
    /\ type_from' = "classifier"
    /\ pc' = "build"
    /\ UNCHANGED <<stack, choice, url, format_type, limit, detected, cmd, success,
                   procVars, relayVars, cookieVars, msg, exit_cause, requests,
                   probe_status, full_outcome, fb_outcome, launches, fallbacks>>

\* The test create_cookie_file opens with: a path is cached and its file
\* exists.
\* Variant: the cache never consulted.
CachedMutNever(cf, fs) == FALSE

Cached(cf, fs) == cf # None /\ cf \in fs

\* build_download_command where create_cookie_file returns the cached path.
BuildCached ==
    /\ pc = "build"
    /\ Cached(cookie_file, files)
    /\ returned' = returned \cup {cookie_file}
    /\ cmd' = build_download_command(url, content_type, format_type, limit, cookie_file)
    /\ msg' = "executing download command"
    /\ pc' = "popen_full"
    /\ UNCHANGED <<stack, reqVars, detected, success, procVars, relayVars,
                   cookie_file, files, made, writes, exit_cause, requests,
                   probe_status, histVars>>

\* create_cookie_file, lines 101-104: a fresh name, and the file opened
\* for writing, which creates it.
CookieOpen ==
    /\ pc = "build"
    /\ ~Cached(cookie_file, files)
    /\ LET path == TempPath(Len(made) + 1) IN
          /\ files' = files \cup {path}
          /\ made' = Append(made, path)
          /\ writes' = Append(writes, path)
    /\ pc' = "cookie_write"
    /\ UNCHANGED <<stack, reqVars, detected, cmd, success, procVars, relayVars,
                   cookie_file, returned, msg, exit_cause, requests, probe_status,
                   histVars>>

\* create_cookie_file, lines 105-120: the cookies written, the file
\* closed, the path cached and returned; the command is assembled with it.
CookieWritten ==
    /\ pc = "cookie_write"
    /\ LET path == made[Len(made)] IN
          /\ cookie_file' = path
          /\ returned' = returned \cup {path}
          /\ cmd' = build_download_command(url, content_type, format_type, limit, path)
    /\ msg' = "executing download command"
    /\ pc' = "popen_full"
    /\ UNCHANGED <<stack, reqVars, detected, success, procVars, relayVars, files,
                   made, writes, exit_cause, requests, probe_status, histVars>>

\* A write of lines 105-117 raises OSError: nothing in download() or run()
\* catches it (line 284 is outside the try block).
CookieWriteRaise ==
    /\ pc = "cookie_write"
    /\ pc' = Unwind(stack) /\ stack' = <<>>
    /\ msg' = "unexpected error"
    /\ exit_cause' = "exception"
    /\ ForgetLocals
    /\ UNCHANGED <<success, procVars, relayVars, cookieVars, requests>>

(***************************************************************************)
(* download(), lines 287-330: the full command and its relay.              *)
(***************************************************************************)
\* The subprocess object is dropped without a wait: a process still
\* running stays alive on its own.
LetGo(p, n) == IF p.st = "running" THEN n + 1 ELSE n

\* subprocess.Popen(cmd, ...) starts the downloader.
PopenFull ==
    /\ pc = "popen_full"
    /\ proc' = Running("full")
    /\ launches' = launches + 1
    /\ pc' = "read_full"
    /\ UNCHANGED <<stack, reqVars, detected, cmd, success, orphans, relayVars,
                   cookieVars, msg, exit_cause, requests, probe_status,
                   full_outcome, fb_outcome, fallbacks, type_from>>

\* subprocess.Popen raises: except Exception, line 326, which calls
\* download_fallback.
PopenFullRaise ==
    /\ pc = "popen_full"
    /\ full_outcome' = "raised"
    /\ msg' = "an error occurred during download"
    /\ pc' = "fallback"
    /\ UNCHANGED <<stack, reqVars, detected, cmd, success, procVars, relayVars,
                   cookieVars, exit_cause, requests, probe_status, fb_outcome,
                   launches, fallbacks, type_from>>

\* The downloader exits, whenever it does.
ProcExit ==
    /\ proc.kind \in {"full", "fallback"}
    /\ proc.st = "running"
    /\ \E rc \in ExitCodes : proc' = [proc EXCEPT !.st = "exited", !.rc = rc]
    /\ UNCHANGED <<pc, stack, reqVars, detected, cmd, success, orphans, relayVars,
                   cookieVars, msg, exit_cause, requests, probe_status, histVars>>

\* A process the program let go of exits.
OrphanExit ==
    /\ orphans > 0
    /\ orphans' = orphans - 1
    /\ UNCHANGED <<pc, stack, reqVars, detected, cmd, success, proc, relayVars,
                   cookieVars, msg, exit_cause, requests, probe_status, histVars>>

\* One line read from process.stdout and relayed, lines 296-313.
RelayFull ==
    /\ pc = "read_full"
    /\ \E l \in OutputLines :
          /\ line' = l
          /\ shown' = relay_full(l)
    /\ UNCHANGED <<pc, stack, reqVars, detected, cmd, success, procVars,
                   cookieVars, msg, exit_cause, requests, probe_status, histVars>>

\* Reading a line raises (output that cannot be decoded): except
\* Exception, line 326, which calls download_fallback.  process.wait() has
\* not been reached.
RelayFullRaise ==
    /\ pc = "read_full"
    /\ full_outcome' = "raised"
    /\ orphans' = LetGo(proc, orphans)
    /\ proc' = NoProc
    /\ line' = <<>> /\ shown' = None
    /\ msg' = "an error occurred during download"
    /\ pc' = "fallback"
    /\ UNCHANGED <<stack, reqVars, detected, cmd, success, cookieVars, exit_cause,
                   requests, probe_status, fb_outcome, launches, fallbacks,
                   type_from>>

\* Lines 318-324: what download() does with the exit status.
\* Variant: a non-zero status returned as failure, without the fallback.
FullVerdictMutGiveUp(rc) == IF rc = 0 THEN "True" ELSE "False"

FullVerdict(rc) == IF rc = 0 THEN "True" ELSE "fallback"

\* End of output, process.wait() and the exit status, lines 315-324.
FullWait ==
    /\ pc = "read_full"
    /\ proc.st = "exited"
    /\ proc' = NoProc
    /\ line' = <<>> /\ shown' = None
    /\ LET v == FullVerdict(proc.rc) IN
       IF v = "fallback"
       THEN /\ full_outcome' = "nonzero"
            /\ msg' = "download failed with error code"
            /\ pc' = "fallback"
            /\ UNCHANGED <<stack, success>>
       ELSE /\ full_outcome' = IF proc.rc = 0 THEN "ok" ELSE "nonzero"
            /\ msg' = "download completed"
            /\ success' = v
            /\ pc' = ReturnTo(stack) /\ stack' = Pop(stack)
    /\ UNCHANGED <<reqVars, detected, cmd, orphans, cookieVars, exit_cause,
                   requests, probe_status, fb_outcome, launches, fallbacks,
                   type_from>>

(***************************************************************************)
(* download_fallback, lines 332-401.                                       *)
(***************************************************************************)
\* Lines 334-364: the reduced command assembled.
DownloadFallback ==
    /\ pc = "fallback"
    /\ fallbacks' = fallbacks + 1
    /\ cmd' = fallback_command(url, content_type, format_type, limit)
    /\ msg' = "executing fallback command"
    /\ pc' = "popen_fb"
    /\ UNCHANGED <<stack, reqVars, detected, success, procVars, relayVars,
                   cookieVars, exit_cause, requests, probe_status, full_outcome,
                   fb_outcome, launches, type_from>>

\* subprocess.Popen(cmd, ...) starts the downloader again.
PopenFallback ==
    /\ pc = "popen_fb"
    /\ proc' = Running("fallback")
    /\ launches' = launches + 1
    /\ pc' = "read_fb"
    /\ UNCHANGED <<stack, reqVars, detected, cmd, success, orphans, relayVars,
                   cookieVars, msg, exit_cause, requests, probe_status,
                   full_outcome, fb_outcome, fallbacks, type_from>>

\* subprocess.Popen raises: except Exception, line 398, return False.
PopenFallbackRaise ==
    /\ pc = "popen_fb"
    /\ fb_outcome' = "raised"
    /\ success' = "False"
    /\ msg' = "unable to download"
    /\ pc' = ReturnTo(stack) /\ stack' = Pop(stack)
    /\ UNCHANGED <<reqVars, detected, cmd, procVars, relayVars, cookieVars,
                   exit_cause, requests, probe_status, full_outcome, launches,
                   fallbacks, type_from>>

\* One line read from process.stdout and relayed, lines 375-386.
RelayFallback ==
    /\ pc = "read_fb"
    /\ \E l \in OutputLines :
          /\ line' = l
          /\ shown' = relay_fallback(l)
    /\ UNCHANGED <<pc, stack, reqVars, detected, cmd, success, procVars,
                   cookieVars, msg, exit_cause, requests, probe_status, histVars>>

\* Reading a line raises: except Exception, line 398, return False.
\* process.wait() has not been reached.
RelayFallbackRaise ==
    /\ pc = "read_fb"
    /\ fb_outcome' = "raised"
    /\ orphans' = LetGo(proc, orphans)
    /\ proc' = NoProc
    /\ line' = <<>> /\ shown' = None
    /\ success' = "False"
    /\ msg' = "unable to download"
    /\ pc' = ReturnTo(stack) /\ stack' = Pop(stack)
    /\ UNCHANGED <<reqVars, detected, cmd, cookieVars, exit_cause, requests,
                   probe_status, full_outcome, launches, fallbacks, type_from>>

\* Lines 391-396: what download_fallback returns for an exit status.
FallbackVerdict(rc) == IF rc = 0 THEN "True" ELSE "False"

\* End of output, process.wait() and the exit status, lines 388-396.
FallbackWait ==
    /\ pc = "read_fb"
    /\ proc.st = "exited"
    /\ proc' = NoProc
    /\ line' = <<>> /\ shown' = None
    /\ fb_outcome' = IF proc.rc = 0 THEN "ok" ELSE "nonzero"
    /\ success' = FallbackVerdict(proc.rc)
    /\ msg' = IF proc.rc = 0 THEN "fallback download completed"
              ELSE "fallback download also failed"
    /\ pc' = ReturnTo(stack) /\ stack' = Pop(stack)
    /\ UNCHANGED <<reqVars, detected, cmd, orphans, cookieVars, exit_cause,
                   requests, probe_status, full_outcome, launches, fallbacks,
                   type_from>>

(***************************************************************************)
(* run(), lines 458-475, and main(), lines 477-498.                        *)
(***************************************************************************)
\* Lines 460-469: what run() prints for the value download() returned.
\* Variant: the failure branch left out.
ReportMsgMutNoTips(ok) == "content downloaded to"

ReportMsg(ok) == IF ok = "True" THEN "content downloaded to" ELSE "tips"

\* success = self.download(...) and the report on it.
Report ==
    /\ pc = "report"
    /\ msg' = ReportMsg(success)
    /\ pc' = "cont_prompt"
    /\ UNCHANGED <<stack, reqVars, detected, cmd, success, procVars, relayVars,
                   cookieVars, exit_cause, requests, probe_status, histVars>>

\* "Download another?": 'y' goes round the loop again.
ContinueYes ==
    /\ pc = "cont_prompt"
    /\ requests < MaxRequests
    /\ \E ans \in ContinueInputs : Lower(ans) = <<"y">>
    /\ requests' = requests + 1
    /\ pc' = "menu"
    /\ ForgetLocals
    /\ UNCHANGED <<stack, success, procVars, relayVars, cookieVars, msg, exit_cause>>

\* Any other answer breaks out of the loop: run() returns.
ContinueNo ==
    /\ pc = "cont_prompt"
    /\ \E ans \in ContinueInputs : Lower(ans) # <<"y">>
    /\ msg' = "goodbye"
    /\ exit_cause' = "declined"
    /\ pc' = ReturnTo(stack) /\ stack' = Pop(stack)
    /\ ForgetLocals
    /\ UNCHANGED <<success, procVars, relayVars, cookieVars, requests>>

\* The statements at which run() waits for input().
Prompts == {"menu", "url_prompt", "format_prompt", "limit_prompt", "cont_prompt"}

\* input() raises EOFError (standard input is closed): main's
\* "except Exception".
InputEOF ==
    /\ pc \in Prompts
    /\ pc' = Unwind(stack) /\ stack' = <<>>
    /\ msg' = "unexpected error"
    /\ exit_cause' = "exception"
    /\ ForgetLocals
    /\ UNCHANGED <<success, procVars, relayVars, cookieVars, requests>>

\* The user interrupts the program, at any statement below main's try:
\* "except KeyboardInterrupt".  subprocess.run kills a probe it is waiting
\* for; nothing waits for or kills a downloader started with Popen.
Interrupt ==
    /\ pc \notin {"finally", "done", "halt"}
    /\ stack # <<>> /\ stack[1] = "finally"
    /\ orphans' = IF proc.kind = "probe" THEN orphans ELSE LetGo(proc, orphans)
    /\ proc' = NoProc
    /\ line' = <<>> /\ shown' = None
    /\ pc' = "finally" /\ stack' = <<>>
    /\ msg' = "interrupted"
    /\ exit_cause' = "interrupt"
    /\ ForgetLocals
    /\ UNCHANGED <<success, cookieVars, requests>>

\* main's finally clause, lines 492-498.
Cleanup ==
    /\ pc = "finally"
    /\ files' = IF cookie_file # None /\ cookie_file \in files
                THEN files \ {cookie_file}
                ELSE files
    /\ pc' = "done"
    /\ UNCHANGED <<stack, reqVars, detected, cmd, success, procVars, relayVars,
                   cookie_file, made, returned, writes, msg, exit_cause, requests,
                   probe_status, histVars>>

(***************************************************************************)
(* The program: main() from start to exit.                                 *)
(***************************************************************************)
Next ==
    \/ MenuExit \/ MenuInvalid \/ MenuChoose \/ UrlPrompt
    \/ GetContentType \/ ProbeLaunch \/ ProbeLaunchRaise \/ ProbeFinish \/ ProbeRaise
    \/ TypeSelect \/ FormatPrompt \/ LimitPrompt
    \/ DownloadEnter
    \/ BuildCached \/ CookieOpen \/ CookieWritten \/ CookieWriteRaise
    \/ PopenFull \/ PopenFullRaise \/ ProcExit \/ OrphanExit
    \/ RelayFull \/ RelayFullRaise \/ FullWait
    \/ DownloadFallback \/ PopenFallback \/ PopenFallbackRaise
    \/ RelayFallback \/ RelayFallbackRaise \/ FallbackWait
    \/ Report \/ ContinueYes \/ ContinueNo
    \/ InputEOF \/ Interrupt \/ Cleanup

Spec == Init /\ [][Next]_vars

(***************************************************************************)
(* get_content_type on its own: every URL made of a head and any of the    *)
(* markers the classifier and the probe look for.                          *)
(***************************************************************************)
UrlMarkers ==
    <<"@", "/c/", "/channel/", "/user/", "/videos", "/shorts/", "watch?v=", "list=">>

UrlHeads ==
    { <<>>,
      <<"https://", "www.youtube.com", "/">>,
      <<"youtube.com", "/">>,
      <<"example.org", "/">> }

MarkerSet == { UrlMarkers[i] : i \in 1..Len(UrlMarkers) }

AllUrls ==
    { h \o SelectSeq(UrlMarkers, LAMBDA m : m \in S) :
        h \in UrlHeads, S \in SUBSET MarkerSet }

\* get_content_type(url) called with any of these URLs.
InitClassify ==
    /\ Fresh
    /\ pc = "classify"
    /\ stack = <<>>
    /\ url \in AllUrls
    /\ choice = None /\ content_type = None
    /\ format_type = "best" /\ limit = "all" /\ type_from = None

NextClassify ==
    \/ GetContentType \/ ProbeLaunch \/ ProbeLaunchRaise \/ ProbeFinish \/ ProbeRaise

SpecClassify == InitClassify /\ [][NextClassify]_vars

(***************************************************************************)
(* download() called by a client of the class as well: any URL, a content  *)
(* type or none, any format, any limit.                                    *)
(***************************************************************************)
InitApi ==
    /\ Fresh
    /\ pc = "download"
    /\ stack = <<>>
    /\ choice = None
    /\ url \in { Strip(u) : u \in UrlInputs }
    /\ content_type \in ContentTypes \cup {None, ""}
    /\ format_type \in {"best", "audio", "video"}
    /\ limit \in {"all", "1"}
    /\ type_from = IF content_type \in ContentTypes THEN "caller" ELSE None

InitCalls == Init \/ InitApi

NextCalls == Next \/ Resolve

SpecCalls == InitCalls /\ [][NextCalls]_vars

(***************************************************************************)
(* Properties.                                                             *)
(***************************************************************************)
\* The statements of download() and download_fallback() after the command
\* builder has been entered.
Assembling ==
    pc \in {"build", "cookie_write", "popen_full", "read_full",
            "fallback", "popen_fb", "read_fb"}

Failed(outcome) == outcome \in {"nonzero", "raised"}

\* The reduced flag set: none of the reliability flags of the full command.
Reduced(c) ==
    /\ c.variant = "fallback"
    /\ \A flag \in {"--cookies", "--user-agent", "--continue", "--add-metadata",
                    "--no-warnings", "--verbose"} : ~In(flag, c.argv)

\* C1: within one call of download(), a full command that fails (non-zero
\* exit, or an exception while launching or reading it) is followed by
\* exactly one call of download_fallback, which runs the reduced command;
\* a full command that succeeds is followed by none; and when the fallback
\* fails too (non-zero exit or exception) download() has returned False,
\* holds no process, and at most two downloader processes were started for
\* the request.
C1_OneFallback ==
    /\ fallbacks <= 1
    /\ launches <= 2
    /\ Failed(full_outcome) => (fallbacks = 1 \/ (pc = "fallback" /\ fallbacks = 0))
    /\ full_outcome = "ok" => (fallbacks = 0 /\ success = "True")
    /\ fallbacks = 1 =>
          (Failed(full_outcome) /\ Reduced(cmd)
           /\ cmd = fallback_command(url, content_type, format_type, limit))
    /\ Failed(fb_outcome) =>
          (success = "False" /\ fallbacks = 1 /\ proc = NoProc /\ ~Assembling)

\* C1 witness: download() has returned False after a full command that
\* raised and a fallback that exited non-zero.
C1_Witness ==
    /\ pc = "report" /\ success = "False"
    /\ full_outcome = "raised" /\ fb_outcome = "nonzero"
    /\ fallbacks = 1 /\ launches = 2

\* C2: at no point are two downloader subprocesses alive together (the
\* fallback is started only after the full-command process has exited).
C2_OneProcessAtATime == Alive <= 1

\* C3 as stated: for every URL containing "list=" and not "/shorts/",
\* get_content_type returns 'playlist', whatever other markers it contains
\* and whatever the probe reports.
C3_Original ==
    (pc = "halt" /\ In("list=", url) /\ ~In("/shorts/", url))
        => detected = "playlist"

\* C3 amended: for every URL containing "list=", not "/shorts/" and none of
\* the channel-path markers '/c/', '/channel/', '/user/', '@',
\* get_content_type returns 'playlist', whatever else the URL contains
\* ('/videos', 'watch?v='), and it does so without running the probe.
C3_PlaylistWithoutChannelMarker ==
    (In("list=", url) /\ ~In("/shorts/", url) /\ ~AnyIn(ChannelPatterns, url))
        => /\ pc \in {"classify", "halt"}
           /\ proc = NoProc /\ probe_status = None
           /\ pc = "halt" => detected = "playlist"

\* C3 witness: a URL with "list=", "/videos" and "watch?v=" and no channel
\* marker has been classified as a playlist.
C3_Witness ==
    /\ pc = "halt" /\ detected = "playlist"
    /\ In("list=", url) /\ In("/videos", url) /\ In("watch?v=", url)
    /\ ~AnyIn(ChannelPatterns, url)

\* C4: for every URL containing "/shorts/", get_content_type returns
\* 'video' whatever other markers the URL contains, and the probe is never
\* started.
C4_ShortsIsVideo ==
    In("/shorts/", url)
        => /\ pc \in {"classify", "halt"}
           /\ proc = NoProc /\ probe_status = None
           /\ pc = "halt" => detected = "video"

\* C4 witness: a URL with "/shorts/", a channel marker, "/videos" and
\* "list=" has been classified as a video.
C4_Witness ==
    /\ pc = "halt" /\ detected = "video"
    /\ In("/shorts/", url) /\ In("@", url) /\ In("/videos", url) /\ In("list=", url)

\* C5: after any sequence of create_cookie_file calls in a run, at most
\* one cookie file has been created and every call returned the same path.
C5_CookieIdempotent ==
    /\ Len(made) <= 1
    /\ Cardinality(returned) <= 1
    /\ returned # {} => (Len(made) = 1 /\ returned = {made[1]} /\ cookie_file = made[1])

\* C5 witness: the command of a second request has been built, with the
\* path the first call returned.
C5_Witness ==
    /\ requests >= 1 /\ pc = "popen_full"
    /\ Len(made) = 1 /\ returned = {made[1]}
    /\ In(made[1], cmd.argv)

\* C6: however main() ends, no cookie file created during the run exists
\* once the program has ended, and no file was opened for writing twice.
C6_CookieDeletedAtExit ==
    /\ pc = "done" => files = {}
    /\ \A i, j \in 1..Len(writes) : writes[i] = writes[j] => i = j

\* C7: whenever build_download_command or download_fallback assembles a
\* command, content_type is one of video, playlist, channel, and it came
\* from the menu choice (1-3), from the classifier (choice 4, or download()
\* called with no content type), or from the caller of download().
C7_TypeResolved ==
    (Assembling \/ cmd.variant # "none")
        => /\ content_type \in ContentTypes
           /\ type_from \in {"choice", "classifier", "caller"}
           /\ type_from = "classifier" => content_type = detected
           /\ type_from = "choice" =>
                 (choice \in {"1", "2", "3"}
                  /\ content_type = content_types(choice, detected))
           /\ type_from = "caller" => choice = None

\* C7 witness: download() was called with no content type, classified the
\* URL with the probe, and the full command is built.
C7_Witness ==
    /\ pc = "popen_full" /\ cmd.variant = "full"
    /\ choice = None /\ type_from = "classifier"
    /\ probe_status = "url" /\ content_type = "channel"

\* The numbers the limit prompt returns, as text.
Numbers == { ToString(n) : n \in 1..MaxLimit }

\* The argument that follows "--playlist-items" in an argument list.
ItemRange(argv) ==
    { argv[i + 1] : i \in { k \in 1..(Len(argv) - 1) : argv[k] = "--playlist-items" } }

\* C8: in the full and in the fallback command '--playlist-items 1-<limit>'
\* is present if and only if content_type is playlist or channel and limit
\* is a number; for content_type video it is never present; and the menu
\* asks for a limit only for playlist and channel.
C8_ItemRange ==
    /\ cmd.variant # "none" =>
          /\ In("--playlist-items", cmd.argv)
                <=> (content_type \in {"playlist", "channel"} /\ limit \in Numbers)
          /\ In("--playlist-items", cmd.argv) => ItemRange(cmd.argv) = {"1-" \o limit}
          /\ content_type = "video" => ~In("--playlist-items", cmd.argv)
    /\ limit \in Numbers \cup {"all"}
    /\ pc = "limit_prompt" => content_type \in {"playlist", "channel"}
    /\ limit # "all" => content_type \in {"playlist", "channel"}

\* C8 witness: the fallback command of a channel request limited to 2
\* items carries the range.
C8_Witness ==
    /\ cmd.variant = "fallback" /\ content_type = "channel" /\ limit = "2"
    /\ ItemRange(cmd.argv) = {"1-2"}

\* C9: with auto-detect, a URL with a channel-path marker and neither
\* '/shorts/' nor '/videos' is classified by the probe; when the probe
\* failed (it raised, or printed no URL) the resolved type is 'video', and
\* the program goes on to the format prompt.
C9_ProbeFailureIsVideo ==
    (/\ choice = "4"
     /\ AnyIn(ChannelPatterns, url) /\ ~In("/shorts/", url) /\ ~In("/videos", url)
     /\ pc \notin {"url_prompt", "classify", "probe", "probing"})
        => /\ probe_status \in {"raised", "empty", "url"}
           /\ probe_status \in {"raised", "empty"} => detected = "video"
           /\ pc # "type_select" => content_type = detected
           /\ exit_cause = None

\* C9 witness: "@somechannel" with auto-detect, the probe raised, and the
\* request is at the format prompt as a video.
C9_Witness ==
    /\ pc = "format_prompt" /\ choice = "4"
    /\ url = <<"https://", "www.youtube.com", "/", "@", "somechannel">>
    /\ probe_status = "raised" /\ content_type = "video"

\* C10: download() returning False does not end the program: the step
\* that returns False leaves run() at its report, and the report of a
\* failure prints the tips and goes to the "Download another?" prompt;
\* only an interrupt of the user ends the program there.
C10_FailureIsNotTerminal ==
    [][/\ (success' = "False" /\ success # "False")
            => (pc' = "report" /\ exit_cause' = None)
       /\ (pc = "report" /\ success = "False")
            => \/ pc' = "cont_prompt" /\ msg' = "tips" /\ exit_cause' = None
               \/ pc' = "report" /\ msg' = msg /\ exit_cause' = None
               \/ exit_cause' = "interrupt"]_vars

\* C10 witness: the menu is shown again after a download that failed.
C10_Witness ==
    /\ pc = "menu" /\ requests >= 1 /\ success = "False" /\ exit_cause = None

\* The output line the relay is at carries the debug tag, in any case.
DebugTagged == line # <<>> /\ Has("[debug]", LowerLine(Strip(line)))

\* C11: for every line of subprocess output that contains '[debug]'
\* (case-insensitive) nothing is displayed, even when the line also carries
\* an error or progress marker, and whichever command, full or fallback,
\* produced the line.
C11_DebugSuppressed == DebugTagged => shown = "nothing"

\* C12: in the menu loop get_content_type, and with it the probe
\* subprocess, runs only when the user selected auto-detect (choice 4): for
\* the choices 1-3 the classifier is not entered and no probe is started,
\* for any URL.
C12_ClassifierOnlyForAutoDetect ==
    (pc \in {"classify", "probe", "probing"} \/ proc.kind = "probe")
        => choice = "4"

=============================================================================
